---- MODULE Spec2Model ----
(***************************************************************************)
(* ARIMADiagnostics (ml_backend/visualization/forecast_diagnostics.py):    *)
(* the model registry loaded from the pickle store, the per-district       *)
(* diagnostics and metrics, the cross-district summary table and the       *)
(* exports.                                                                *)
(*                                                                         *)
(* Representation.                                                         *)
(*   - A Python dict is an insertion-ordered sequence of entries           *)
(*     [k |-> key, v |-> value]; list(d.keys()) is the sequence of keys.   *)
(*   - An optional value is None or Some(x); an external call either       *)
(*     Raises or Returns(x).                                               *)
(*   - Series values are naturals 0..MaxVal, NaN marks a missing value.    *)
(*   - p-values are integers in units of 1/10000 (P005 is 0.05).           *)
(*   - A mean is kept as the exact fraction [num, den]; round(x, 1) is     *)
(*     computed on that fraction and yields tenths.                        *)
(*   - Forecast values are integers in units of 1/PointDen; round(x, 0)    *)
(*     yields whole units.                                                 *)
(***************************************************************************)
EXTENDS Integers, Sequences, FiniteSets, TLC

\* ---------------------------------------------------------------- bounds
NumRegions == 2
MaxHorizon == 2
MaxVal == 2
MaxSeriesLen == 2
MaxLoadsCounted == 2

\* ------------------------------------------------------ program constants
\* scipy's Shapiro-Wilk is run only for 3 < n <= 5000
ShapiroMin == 3
ShapiroMax == 5000
\* the 0.05 significance threshold, in units of 1/10000
P005 == 500

\* ------------------------------------------------------------ value shapes
None == [none |-> TRUE]
Some(x) == [some |-> x]
Raises == [raises |-> TRUE]
Returns(x) == [ret |-> x]

NaN == 0 - 1
IsNaN(x) == x = NaN

Regions == 1..NumRegions
Vals == {NaN} \cup (0..MaxVal)

Min(a, b) == IF a <= b THEN a ELSE b
Abs(x) == IF x < 0 THEN 0 - x ELSE x

RECURSIVE Fact(_)
Fact(n) == IF n <= 1 THEN 1 ELSE n * Fact(n - 1)

RECURSIVE SumSeq(_)
SumSeq(s) == IF s = <<>> THEN 0 ELSE Head(s) + SumSeq(Tail(s))

SeqsUpTo(S, n) == UNION {[1..k -> S] : k \in 0..n}

\* ------------------------------------------------------------ Python dicts
EmptyDict == <<>>
Keys(d) == [i \in 1..Len(d) |-> d[i].k]
KeySet(d) == {d[i].k : i \in 1..Len(d)}
HasKey(d, key) == key \in KeySet(d)
Lookup(d, key) == d[CHOOSE i \in 1..Len(d) : d[i].k = key].v
DictGet(d, key, default) == IF HasKey(d, key) THEN Lookup(d, key) ELSE default

\* The object held by self.models: a dict, or a value without len()/keys()
\* (None, a number) that the store happened to hold under "models".
Sized(items) == [sized |-> TRUE, items |-> items]
Unsized == [sized |-> FALSE, items |-> <<>>]

\* The value None held by self.district_stats when the store has None under
\* "district_stats": an object without .get. It is written as the one dict
\* no training run produces (0 is not a district), so that it can stand
\* where a dict stands.
NoneStats == <<[k |-> 0, v |-> <<>>]>>
HasGet(ds) == ds # NoneStats

\* all dicts with distinct keys from K and values from V, in every key order
DictsOver(K, V) ==
    {d \in SeqsUpTo([k : K, v : V], Cardinality(K)) :
        \A i, j \in 1..Len(d) : d[i].k = d[j].k => i = j}

\* ------------------------------------------------------------ fitted models
\* The capabilities of a fitted ARIMA result that the module touches:
\*   resid_n       number of residuals left after dropna()
\*   adf           adfuller(resid): Raises, or Returns(p-value)
\*   lb            acorr_ljungbox(resid, lags=[10]) p-value
\*   shapiro       scipy_stats.shapiro(resid) p-value, when it is run
\*   pacf          acf/pacf(resid, nlags): Raises or Returns(0)
\*   fittedvalues  in-sample predictions
\*   endog         the observations (model.model.endog)
\*   forecast      get_forecast(steps): Raises, or Returns(cap): the
\*                 predicted_mean and conf_int hold min(steps, cap) steps
\*   points        the forecast of each step: predicted_mean.iloc[i - 1] and
\*                 the two columns of conf_int, in units of 1 / PointDen
\*   aic, bic      information criteria
PointDen == 4
ZeroPoint == [lower |-> 0, mean |-> 0, upper |-> 0]

BaseModel ==
    [resid_n |-> 10, adf |-> Returns(100), lb |-> 9000, shapiro |-> 8000,
     pacf |-> Returns(0), fittedvalues |-> <<0>>, endog |-> <<0>>,
     forecast |-> Returns(MaxHorizon), points |-> [i \in 1..MaxHorizon |-> ZeroPoint],
     aic |-> 0, bic |-> 0]

FullStats == <<[k |-> "order", v |-> <<2, 1, 0>>], [k |-> "data_points", v |-> 9]>>
DefaultOrder == <<1, 1, 1>>

\* ------------------------------------------------------------ the store
\* The file at model_path: missing, not unpicklable ("corrupt"), unpickled
\* to an object without .get ("notdict"), or unpickled to a dict.
MissingStore == [kind |-> "missing", data |-> EmptyDict]
CorruptStore == [kind |-> "corrupt", data |-> EmptyDict]
NotDictStore == [kind |-> "notdict", data |-> EmptyDict]
DictStore(d) == [kind |-> "dict", data |-> d]

StoreOf(ms, ds) ==
    DictStore(<<[k |-> "models", v |-> ms], [k |-> "district_stats", v |-> ds]>>)

VARIABLES
    store,           \* the content of the file at self.model_path
    models,          \* self.models
    district_stats,  \* self.district_stats
    loadsSinceWrite, \* load_models calls since the file was last written (counted up to MaxLoadsCounted)
    lastGood,        \* what the last load_models call that returned True assigned
    forecasts_csv,   \* output_dir/forecasts.csv: None or Some(rows)
    metrics_csv,     \* output_dir/metrics_summary.csv: None or Some(rows)
    plots,           \* the files under output_dir/plots
    output_dir,      \* self.output_dir of the ARIMADiagnostics object
    dashboard,       \* dashboard.html: None, or Some of its directory and content
    lastCall         \* the last public call: its name, arguments and outcome

vars == <<store, models, district_stats, loadsSinceWrite, lastGood, forecasts_csv,
          metrics_csv, plots, output_dir, dashboard, lastCall>>

NoCall == [op |-> "none"]

\* os.path.join(OUTPUT_DIR, "diagnostics"), the directory both classes take
\* at construction, and any other directory
DefaultDir == "OUTPUT_DIR/diagnostics"
OtherDir == "elsewhere"

\* ARIMADiagnostics.__init__
InitObject ==
    /\ models = Sized(EmptyDict)
    /\ district_stats = EmptyDict
    /\ loadsSinceWrite = 0
    /\ lastGood = [models |-> Sized(EmptyDict), district_stats |-> EmptyDict]
    /\ forecasts_csv = None
    /\ metrics_csv = None
    /\ plots = {}
    /\ output_dir = DefaultDir
    /\ dashboard = None
    /\ lastCall = NoCall

\* ------------------------------------------------------------ load_models
\* The try block (lines 73-80): pickle.load, the two assignments, len().
\* exc tells whether an exception left the block, and the fields are what
\* self.models and self.district_stats hold at that point.
TryLoad(s, ms, ds) ==
    IF s.kind \in {"corrupt", "notdict"}
    THEN [models |-> ms, district_stats |-> ds, exc |-> TRUE]
    ELSE LET newModels == DictGet(s.data, "models", Sized(EmptyDict))
             newStats == DictGet(s.data, "district_stats", EmptyDict)
         IN  \* both fields are assigned before len(self.models) is evaluated
             [models |-> newModels, district_stats |-> newStats,
              exc |-> ~newModels.sized]

\* a load_models that lets the exception of the try block escape
LoadOutcome_NoExcept(s, ms, ds) ==
    IF s.kind = "missing"
    THEN [models |-> ms, district_stats |-> ds, result |-> FALSE, raised |-> FALSE]
    ELSE LET t == TryLoad(s, ms, ds)
         IN  [models |-> t.models, district_stats |-> t.district_stats,
              result |-> ~t.exc, raised |-> t.exc]

\* a load_models that adds the store's entries to the ones already held
LoadOutcome_Append(s, ms, ds) ==
    IF s.kind = "missing"
    THEN [models |-> ms, district_stats |-> ds, result |-> FALSE, raised |-> FALSE]
    ELSE LET t == TryLoad(s, ms, ds)
         IN  [models |-> IF t.exc \/ ~ms.sized THEN t.models
                         ELSE Sized(ms.items \o t.models.items),
              district_stats |-> t.district_stats,
              result |-> ~t.exc, raised |-> FALSE]

\* What load_models leaves in self.models and self.district_stats, what it
\* returns, and whether it raised.
LoadOutcome(s, ms, ds) ==
    IF s.kind = "missing"
    THEN [models |-> ms, district_stats |-> ds, result |-> FALSE, raised |-> FALSE]
    ELSE LET t == TryLoad(s, ms, ds)
         IN  [models |-> t.models, district_stats |-> t.district_stats,
              result |-> ~t.exc, raised |-> FALSE]

LoadModels ==
    LET out == LoadOutcome(store, models, district_stats)
    IN  /\ models' = out.models
        /\ district_stats' = out.district_stats
        /\ loadsSinceWrite' = Min(loadsSinceWrite + 1, MaxLoadsCounted)
        /\ lastGood' = IF out.result /\ ~out.raised
                       THEN [models |-> out.models, district_stats |-> out.district_stats]
                       ELSE lastGood
        /\ lastCall' = [op |-> "load_models", raised |-> out.raised,
                        result |-> out.result]
        /\ UNCHANGED <<output_dir, dashboard, store, forecasts_csv, metrics_csv, plots>>

\* ------------------------------------------------------------ get_districts
GetDistrictsOutcome(ms) == IF ms.sized THEN Returns(Keys(ms.items)) ELSE Raises

GetDistricts ==
    /\ lastCall' = [op |-> "get_districts", out |-> GetDistrictsOutcome(models)]
    /\ UNCHANGED <<output_dir, dashboard, store, models, district_stats, loadsSinceWrite, lastGood,
                   forecasts_csv, metrics_csv, plots>>

\* ------------------------------------------------------------ before the try block
\* The statements of compute_diagnostics, compute_metrics and
\* generate_forecast_plot that stand before the try block: the membership
\* test on self.models, then self.district_stats.get for a known district.
LookupsPass(ms, ds, district) ==
    ms.sized /\ (HasKey(ms.items, district) => HasGet(ds))

\* the same for every district of get_districts(), as in the loops of
\* generate_summary_table and generate_all_outputs
LoopPasses(ms, ds) ==
    ms.sized /\ \A d \in KeySet(ms.items) : LookupsPass(ms, ds, d)

\* ------------------------------------------------------------ truthiness
\* `if x` on a dict result: None is falsy, a non-empty dict is truthy.
DictTruthy(x) == x # None
\* `if x` on an optional number: None and 0.0 are falsy.
NumTruthy(x) == x # None /\ x.some # 0

\* ------------------------------------------------------------ compute_diagnostics
\* residuals.dropna() has model.resid_n entries
ShapiroPValue(model) ==
    IF model.resid_n <= ShapiroMax /\ model.resid_n > ShapiroMin
    THEN Some(model.shapiro)
    ELSE None

\* a compute_diagnostics whose two thresholds include the value 0.05
DiagnosticsOf_InclusiveThreshold(district, model, district_stat) ==
    IF model.adf = Raises THEN None
    ELSE LET adf_p == model.adf.ret
             lb_pvalue == model.lb
             shapiro_pvalue == ShapiroPValue(model)
         IN  [district |-> district,
              adf_pvalue |-> adf_p,
              is_stationary |-> adf_p <= P005,
              ljung_box_pvalue |-> lb_pvalue,
              no_autocorrelation |-> lb_pvalue >= P005,
              shapiro_pvalue |-> IF NumTruthy(shapiro_pvalue)
                                 THEN shapiro_pvalue ELSE None,
              model_order |-> DictGet(district_stat, "order", DefaultOrder),
              aic |-> model.aic,
              bic |-> model.bic]

\* the body of the try block; an exception gives None
DiagnosticsOf(district, model, district_stat) ==
    IF model.adf = Raises THEN None
    ELSE LET adf_p == model.adf.ret
             lb_pvalue == model.lb
             shapiro_pvalue == ShapiroPValue(model)
         IN  [district |-> district,
              adf_pvalue |-> adf_p,
              is_stationary |-> adf_p < P005,
              ljung_box_pvalue |-> lb_pvalue,
              no_autocorrelation |-> lb_pvalue > P005,
              shapiro_pvalue |-> IF NumTruthy(shapiro_pvalue)
                                 THEN shapiro_pvalue ELSE None,
              model_order |-> DictGet(district_stat, "order", DefaultOrder),
              aic |-> model.aic,
              bic |-> model.bic]

ComputeDiagnostics(ms, ds, district) ==
    IF ~HasKey(ms, district) THEN None
    ELSE DiagnosticsOf(district, Lookup(ms, district), DictGet(ds, district, EmptyDict))

\* ------------------------------------------------------------ compute_metrics
\* s[-n:] ; -0 is 0, so s[-0:] is the whole sequence
PyTail(s, n) == IF n = 0 THEN s ELSE SubSeq(s, Len(s) - n + 1, Len(s))

\* s[mask] for a boolean mask of the same length
MaskSeq(s, mask) ==
    LET F[i \in 0..Len(s)] ==
            IF i = 0 THEN <<>>
            ELSE IF mask[i] THEN Append(F[i - 1], s[i]) ELSE F[i - 1]
    IN  F[Len(s)]

\* the aligned pairs with no missing side (lines 176-183); Raises when the
\* two slices differ in length (numpy cannot combine or index them)
AlignedClean(model) ==
    LET n == Min(Len(model.fittedvalues), Len(model.endog))
        fitted_vals == PyTail(model.fittedvalues, n)
        actual_vals == PyTail(model.endog, n)
    IN  IF Len(fitted_vals) # Len(actual_vals) THEN Raises
        ELSE LET valid_mask == [i \in 1..Len(fitted_vals) |->
                                   ~(IsNaN(fitted_vals[i]) \/ IsNaN(actual_vals[i]))]
             IN  Returns([fitted |-> MaskSeq(fitted_vals, valid_mask),
                          actual |-> MaskSeq(actual_vals, valid_mask)])

\* a MAPE that is given up as soon as one actual value is zero
MapeOf_AnyZero(errors, actual_clean) ==
    IF \A i \in 1..Len(actual_clean) : actual_clean[i] # 0
    THEN Some([num |-> 100 * SumSeq([i \in 1..Len(actual_clean) |->
                             Abs(errors[i]) * (Fact(MaxVal) \div Abs(actual_clean[i]))]),
               den |-> Fact(MaxVal) * Len(actual_clean)])
    ELSE None

\* mean(|errors[nonzero] / actual[nonzero]|) * 100 as an exact fraction over
\* the common denominator Fact(MaxVal) * count
MapeOf(errors, actual_clean) ==
    LET nonzero == [i \in 1..Len(actual_clean) |-> actual_clean[i] # 0]
        e == MaskSeq(errors, nonzero)
        a == MaskSeq(actual_clean, nonzero)
    IN  IF Len(a) > 0
        THEN Some([num |-> 100 * SumSeq([i \in 1..Len(a) |->
                                 Abs(e[i]) * (Fact(MaxVal) \div Abs(a[i]))]),
                   den |-> Fact(MaxVal) * Len(a)])
        ELSE None

\* a compute_metrics that reports a measured interval coverage (in tenths
\* of a percent)
MetricsOf_CoverageMeasured(district, model, stats_data) ==
    LET al == AlignedClean(model)
    IN  IF al = Raises THEN None
        ELSE IF Len(al.ret.fitted) = 0 THEN None
        ELSE LET fitted_clean == al.ret.fitted
                 actual_clean == al.ret.actual
                 cnt == Len(actual_clean)
                 errors == [i \in 1..cnt |-> actual_clean[i] - fitted_clean[i]]
             IN  [district |-> district,
                  rmse |-> [num |-> SumSeq([i \in 1..cnt |-> errors[i] * errors[i]]),
                            den |-> cnt],
                  mae |-> [num |-> SumSeq([i \in 1..cnt |-> Abs(errors[i])]),
                           den |-> cnt],
                  mape |-> MapeOf(errors, actual_clean),
                  aic |-> model.aic,
                  bic |-> model.bic,
                  ci_coverage_95 |-> Some(950),
                  data_points |-> DictGet(stats_data, "data_points", cnt)]

\* a compute_metrics whose MAE is the mean of the signed errors
MetricsOf_SignedErrors(district, model, stats_data) ==
    LET al == AlignedClean(model)
    IN  IF al = Raises THEN None
        ELSE IF Len(al.ret.fitted) = 0 THEN None
        ELSE LET fitted_clean == al.ret.fitted
                 actual_clean == al.ret.actual
                 cnt == Len(actual_clean)
                 errors == [i \in 1..cnt |-> actual_clean[i] - fitted_clean[i]]
             IN  [district |-> district,
                  rmse |-> [num |-> SumSeq([i \in 1..cnt |-> errors[i] * errors[i]]),
                            den |-> cnt],
                  mae |-> [num |-> SumSeq([i \in 1..cnt |-> errors[i]]),
                           den |-> cnt],
                  mape |-> MapeOf(errors, actual_clean),
                  aic |-> model.aic,
                  bic |-> model.bic,
                  ci_coverage_95 |-> None,
                  data_points |-> DictGet(stats_data, "data_points", cnt)]

MetricsOf(district, model, stats_data) ==
    LET al == AlignedClean(model)
    IN  IF al = Raises THEN None
        ELSE IF Len(al.ret.fitted) = 0 THEN None
        ELSE LET fitted_clean == al.ret.fitted
                 actual_clean == al.ret.actual
                 cnt == Len(actual_clean)
                 errors == [i \in 1..cnt |-> actual_clean[i] - fitted_clean[i]]
             IN  [district |-> district,
                  \* rmse is sqrt(num / den)
                  rmse |-> [num |-> SumSeq([i \in 1..cnt |-> errors[i] * errors[i]]),
                            den |-> cnt],
                  mae |-> [num |-> SumSeq([i \in 1..cnt |-> Abs(errors[i])]),
                           den |-> cnt],
                  mape |-> MapeOf(errors, actual_clean),
                  aic |-> model.aic,
                  bic |-> model.bic,
                  ci_coverage_95 |-> None,
                  data_points |-> DictGet(stats_data, "data_points", cnt)]

ComputeMetrics(ms, ds, district) ==
    IF ~HasKey(ms, district) THEN None
    ELSE MetricsOf(district, Lookup(ms, district), DictGet(ds, district, EmptyDict))

\* ------------------------------------------------------------ rounding
\* round(num / den, 1) in tenths, for a fraction >= 0 (ties go to even)
RoundTenths(num, den) ==
    LET q == (10 * num) \div den
        r == (10 * num) % den
    IN  IF 2 * r < den THEN q
        ELSE IF 2 * r > den THEN q + 1
        ELSE IF q % 2 = 0 THEN q ELSE q + 1

\* round(sqrt(num / den), 1) in tenths: the t with t - 1/2 <= 10 sqrt(num/den) < t + 1/2
RoundSqrtTenths(num, den) ==
    CHOOSE t \in 0..(10 * (MaxVal + 1)) :
        /\ (t = 0 \/ (2 * t - 1) * (2 * t - 1) * den <= 400 * num)
        /\ 400 * num < (2 * t + 1) * (2 * t + 1) * den

\* round(num / den, 0) in whole units, for any sign (ties go to even)
RoundUnits(num, den) ==
    LET q == num \div den
        r == num % den
    IN  IF 2 * r < den THEN q
        ELSE IF 2 * r > den THEN q + 1
        ELSE IF q % 2 = 0 THEN q ELSE q + 1

\* ------------------------------------------------------------ generate_summary_table
SummaryRow(district, diagnostics, metrics) ==
    [District |-> district,
     RMSE |-> RoundSqrtTenths(metrics.rmse.num, metrics.rmse.den),
     MAE |-> RoundTenths(metrics.mae.num, metrics.mae.den),
     MAPE |-> IF metrics.mape # None /\ metrics.mape.some.num # 0
              THEN Some(RoundTenths(metrics.mape.some.num, metrics.mape.some.den))
              ELSE None,
     AIC |-> metrics.aic,
     BIC |-> metrics.bic,
     ADF_pvalue |-> diagnostics.adf_pvalue,
     LjungBox_pvalue |-> diagnostics.ljung_box_pvalue,
     CI_Coverage |-> IF NumTruthy(metrics.ci_coverage_95)
                     THEN metrics.ci_coverage_95 ELSE None,
     Data_Points |-> metrics.data_points,
     Order |-> diagnostics.model_order]

\* whether the row of a district is appended (line 427)
RowIncluded(diagnostics, metrics) == DictTruthy(diagnostics) /\ DictTruthy(metrics)

\* a loop that ends at the first district without a row
SummaryRows_StopAtFailure(ms, ds) ==
    LET districts == Keys(ms)
        F[i \in 0..Len(districts)] ==
            IF i = 0 THEN [rows |-> <<>>, stopped |-> FALSE]
            ELSE LET district == districts[i]
                     diagnostics == ComputeDiagnostics(ms, ds, district)
                     metrics == ComputeMetrics(ms, ds, district)
                 IN  IF F[i - 1].stopped THEN F[i - 1]
                     ELSE IF RowIncluded(diagnostics, metrics)
                     THEN [F[i - 1] EXCEPT !.rows =
                              Append(@, SummaryRow(district, diagnostics, metrics))]
                     ELSE [F[i - 1] EXCEPT !.stopped = TRUE]
    IN  F[Len(districts)].rows

\* a loop that appends a row without figures for a district without results
SummaryRows_RowForEveryDistrict(ms, ds) ==
    LET districts == Keys(ms)
        F[i \in 0..Len(districts)] ==
            IF i = 0 THEN <<>>
            ELSE LET district == districts[i]
                     diagnostics == ComputeDiagnostics(ms, ds, district)
                     metrics == ComputeMetrics(ms, ds, district)
                 IN  IF RowIncluded(diagnostics, metrics)
                     THEN Append(F[i - 1], SummaryRow(district, diagnostics, metrics))
                     ELSE Append(F[i - 1], [District |-> district, RMSE |-> 0])
    IN  F[Len(districts)]

\* the rows list after the loop over get_districts() (lines 421-440)
SummaryRows(ms, ds) ==
    LET districts == Keys(ms)
        F[i \in 0..Len(districts)] ==
            IF i = 0 THEN <<>>
            ELSE LET district == districts[i]
                     diagnostics == ComputeDiagnostics(ms, ds, district)
                     metrics == ComputeMetrics(ms, ds, district)
                 IN  IF RowIncluded(diagnostics, metrics)
                     THEN Append(F[i - 1], SummaryRow(district, diagnostics, metrics))
                     ELSE F[i - 1]
    IN  F[Len(districts)]

IndexPermutations(n) == {p \in [1..n -> 1..n] : \A i, j \in 1..n : p[i] = p[j] => i = j}

\* df.sort_values("RMSE"): the default kind is quicksort, which is not stable,
\* so rows of equal RMSE may come out in any order.
SortValuesOutcomes(rows) ==
    {[i \in 1..Len(rows) |-> rows[p[i]]] : p \in
        {q \in IndexPermutations(Len(rows)) :
            \A i, j \in 1..Len(rows) : i < j => rows[q[i]].RMSE <= rows[q[j]].RMSE}}

\* a generate_summary_table that returns the rows as collected
SummaryTables_Unsorted(ms, ds) == {SummaryRows(ms, ds)}

\* the DataFrames generate_summary_table can return (lines 442-445)
SummaryTables(ms, ds) ==
    LET rows == SummaryRows(ms, ds)
    IN  IF Len(rows) > 0 THEN SortValuesOutcomes(rows) ELSE {rows}

GenerateSummaryTable ==
    /\ IF LoopPasses(models, district_stats)
       THEN \E t \in SummaryTables(models.items, district_stats) :
                lastCall' = [op |-> "generate_summary_table", raised |-> FALSE,
                             result |-> t]
       ELSE lastCall' = [op |-> "generate_summary_table", raised |-> TRUE]
    /\ UNCHANGED <<output_dir, dashboard, store, models, district_stats, loadsSinceWrite, lastGood,
                   forecasts_csv, metrics_csv, plots>>

\* ------------------------------------------------------------ CSV files
\* pd.DataFrame(rows).to_csv: a DataFrame built from an empty list has no columns
ToCsv(rows, columns) ==
    [columns |-> IF Len(rows) = 0 THEN <<>> ELSE columns, rows |-> rows]

SummaryColumns ==
    <<"District", "RMSE", "MAE", "MAPE (%)", "AIC", "BIC", "ADF p-value",
      "Ljung-Box p-value", "CI Coverage (%)", "Data Points", "Order">>

ForecastColumns ==
    <<"district", "date", "period", "forecast", "lower_ci_95", "upper_ci_95">>

\* ------------------------------------------------------------ export_metrics_csv
ExportMetricsCsv ==
    /\ IF LoopPasses(models, district_stats)
       THEN \E t \in SummaryTables(models.items, district_stats) :
                /\ metrics_csv' = Some(ToCsv(t, SummaryColumns))
                /\ lastCall' = [op |-> "export_metrics_csv", raised |-> FALSE,
                                result |-> "metrics_summary.csv"]
       ELSE /\ metrics_csv' = metrics_csv
            /\ lastCall' = [op |-> "export_metrics_csv", raised |-> TRUE]
    /\ UNCHANGED <<output_dir, dashboard, store, models, district_stats, loadsSinceWrite, lastGood,
                   forecasts_csv, plots>>

\* ------------------------------------------------------------ export_forecasts_csv
\* the number of steps of one district whose row is appended before the try
\* block ends: all of them, or those before the first read that raises
StepsAppended(model, forecast_periods) ==
    IF model.forecast = Raises THEN 0
    ELSE Min(forecast_periods, model.forecast.ret)

\* whether the try block of one district ends in the except clause
ForecastExportFails(model, forecast_periods) ==
    \/ model.forecast = Raises
    \/ model.forecast.ret < forecast_periods

\* an export that rounds the point forecast up and the bounds to nearest
ForecastRowsOf_ForecastRoundedUp(district, model, forecast_periods) ==
    [i \in 1..StepsAppended(model, forecast_periods) |->
        [district |-> district, date |-> i, period |-> i,
         forecast |-> 0 - ((0 - model.points[i].mean) \div PointDen),
         lower_ci_95 |-> RoundUnits(model.points[i].lower, PointDen),
         upper_ci_95 |-> RoundUnits(model.points[i].upper, PointDen)]]

\* the rows of one district (lines 466-475); date is the number of months
\* after base_date
ForecastRowsOf(district, model, forecast_periods) ==
    [i \in 1..StepsAppended(model, forecast_periods) |->
        [district |-> district, date |-> i, period |-> i,
         forecast |-> RoundUnits(model.points[i].mean, PointDen),
         lower_ci_95 |-> RoundUnits(model.points[i].lower, PointDen),
         upper_ci_95 |-> RoundUnits(model.points[i].upper, PointDen)]]

\* the rows list after the loop over get_districts() (lines 454-477)
ForecastRows(ms, forecast_periods) ==
    LET districts == Keys(ms)
        F[i \in 0..Len(districts)] ==
            IF i = 0 THEN <<>>
            ELSE F[i - 1] \o
                 ForecastRowsOf(districts[i], Lookup(ms, districts[i]), forecast_periods)
    IN  F[Len(districts)]

\* the districts for which "Failed to export forecast" is logged
ForecastFailures(ms, forecast_periods) ==
    {d \in KeySet(ms) : ForecastExportFails(Lookup(ms, d), forecast_periods)}

ExportForecastsCsv ==
    /\ \E forecast_periods \in 1..MaxHorizon :
        IF models.sized
        THEN /\ forecasts_csv' =
                    Some(ToCsv(ForecastRows(models.items, forecast_periods), ForecastColumns))
             /\ lastCall' = [op |-> "export_forecasts_csv", raised |-> FALSE,
                             forecast_periods |-> forecast_periods,
                             failed |-> ForecastFailures(models.items, forecast_periods)]
        ELSE /\ forecasts_csv' = forecasts_csv
             /\ lastCall' = [op |-> "export_forecasts_csv", raised |-> TRUE,
                             forecast_periods |-> forecast_periods]
    /\ UNCHANGED <<output_dir, dashboard, store, models, district_stats, loadsSinceWrite, lastGood,
                   metrics_csv, plots>>

\* ------------------------------------------------------------ plots
\* generate_forecast_plot: None when the district is unknown or the try
\* block raises, else the figure
GenerateForecastPlot(ms, district, forecast_periods) ==
    IF ~HasKey(ms, district) THEN None
    ELSE LET model == Lookup(ms, district)
         IN  IF model.forecast = Raises THEN None
             ELSE Some([district |-> district, kind |-> "forecast",
                        steps |-> Min(forecast_periods, model.forecast.ret)])

\* generate_residual_plots
GenerateResidualPlots(ms, district) ==
    IF ~HasKey(ms, district) THEN None
    ELSE LET model == Lookup(ms, district)
         IN  IF model.pacf = Raises THEN None
             ELSE Some([district |-> district, kind |-> "diagnostics"])

\* a plot file, and its key in the outputs dict, is (district, kind); the
\* keys "forecasts_csv" and "metrics_csv" belong to no district
PlotFile(district, kind) == <<district, kind>>
OutputKey(name) == <<0, name>>
PlotFiles == {PlotFile(d, kind) : d \in Regions, kind \in {"forecast", "diagnostics"}}

\* save_plot(fig, filename): fig.write_html raises for the files in unwritable
SavePlot(file, unwritable) == IF file \in unwritable THEN Raises ELSE Returns(file)

\* ------------------------------------------------------------ generate_all_outputs
\* The per-district loop (lines 516-527): the files written, and whether a
\* save_plot raised, which ends the loop and the call.
PlotLoop(ms, forecast_periods, unwritable) ==
    LET districts == Keys(ms)
        Save(acc, fig, file) ==
            IF acc.raised \/ fig = None THEN acc
            ELSE IF SavePlot(file, unwritable) = Raises
                 THEN [acc EXCEPT !.raised = TRUE]
                 ELSE [acc EXCEPT !.written = @ \cup {file}]
        F[i \in 0..Len(districts)] ==
            IF i = 0 THEN [written |-> {}, raised |-> FALSE]
            ELSE LET district == districts[i]
                     afterForecast ==
                         Save(F[i - 1],
                              GenerateForecastPlot(ms, district, forecast_periods),
                              PlotFile(district, "forecast"))
                 IN  Save(afterForecast, GenerateResidualPlots(ms, district),
                          PlotFile(district, "diagnostics"))
    IN  F[Len(districts)]

GenerateAllOutputs ==
    /\ \E forecast_periods \in 1..MaxHorizon,
          unwritable \in {u \in SUBSET PlotFiles : Cardinality(u) <= 1} :
        IF ~LoopPasses(models, district_stats)
        THEN /\ lastCall' = [op |-> "generate_all_outputs", raised |-> TRUE,
                             forecast_periods |-> forecast_periods,
                             outputs |-> {}]
             /\ UNCHANGED <<plots, forecasts_csv, metrics_csv>>
        ELSE LET loop == PlotLoop(models.items, forecast_periods, unwritable)
             IN  /\ plots' = plots \cup loop.written
                 /\ IF loop.raised
                    THEN /\ lastCall' = [op |-> "generate_all_outputs", raised |-> TRUE,
                                         forecast_periods |-> forecast_periods,
                                         outputs |-> loop.written]
                         /\ UNCHANGED <<forecasts_csv, metrics_csv>>
                    ELSE \E t \in SummaryTables(models.items, district_stats) :
                         /\ forecasts_csv' =
                                Some(ToCsv(ForecastRows(models.items, forecast_periods),
                                           ForecastColumns))
                         /\ metrics_csv' = Some(ToCsv(t, SummaryColumns))
                         /\ lastCall' = [op |-> "generate_all_outputs", raised |-> FALSE,
                                         forecast_periods |-> forecast_periods,
                                         outputs |-> loop.written \cup
                                                     {OutputKey("forecasts_csv"),
                                                      OutputKey("metrics_csv")}]
    /\ UNCHANGED <<output_dir, dashboard, store, models, district_stats, loadsSinceWrite, lastGood>>

\* ------------------------------------------------------------ direct calls
ComputeDiagnosticsCall ==
    /\ \E district \in Regions :
        lastCall' = IF LookupsPass(models, district_stats, district)
                    THEN [op |-> "compute_diagnostics", raised |-> FALSE,
                          district |-> district,
                          result |-> ComputeDiagnostics(models.items, district_stats,
                                                        district)]
                    ELSE [op |-> "compute_diagnostics", raised |-> TRUE,
                          district |-> district]
    /\ UNCHANGED <<output_dir, dashboard, store, models, district_stats, loadsSinceWrite, lastGood,
                   forecasts_csv, metrics_csv, plots>>

\* a compute_metrics that keeps the count of the data points it used in
\* self.district_stats when the district has no stats
ComputeMetricsCall_StoresStats ==
    \E district \in Regions :
        IF LookupsPass(models, district_stats, district)
        THEN LET result == ComputeMetrics(models.items, district_stats, district)
             IN  /\ lastCall' = [op |-> "compute_metrics", raised |-> FALSE,
                                 district |-> district, result |-> result]
                 /\ district_stats' =
                        IF result # None /\ ~HasKey(district_stats, district)
                        THEN Append(district_stats,
                                    [k |-> district,
                                     v |-> <<[k |-> "data_points",
                                              v |-> result.data_points]>>])
                        ELSE district_stats
                 /\ UNCHANGED <<output_dir, dashboard, store, models, loadsSinceWrite, lastGood,
                                forecasts_csv, metrics_csv, plots>>
        ELSE /\ lastCall' = [op |-> "compute_metrics", raised |-> TRUE,
                             district |-> district]
             /\ UNCHANGED <<output_dir, dashboard, store, models, district_stats, loadsSinceWrite, lastGood,
                            forecasts_csv, metrics_csv, plots>>

ComputeMetricsCall ==
    /\ \E district \in Regions :
        lastCall' = IF LookupsPass(models, district_stats, district)
                    THEN [op |-> "compute_metrics", raised |-> FALSE,
                          district |-> district,
                          result |-> ComputeMetrics(models.items, district_stats,
                                                    district)]
                    ELSE [op |-> "compute_metrics", raised |-> TRUE,
                          district |-> district]
    /\ UNCHANGED <<output_dir, dashboard, store, models, district_stats, loadsSinceWrite, lastGood,
                   forecasts_csv, metrics_csv, plots>>

GenerateForecastPlotCall ==
    /\ \E district \in Regions, forecast_periods \in 1..MaxHorizon :
        lastCall' = IF LookupsPass(models, district_stats, district)
                    THEN [op |-> "generate_forecast_plot", raised |-> FALSE,
                          district |-> district,
                          result |-> GenerateForecastPlot(models.items, district,
                                                          forecast_periods)]
                    ELSE [op |-> "generate_forecast_plot", raised |-> TRUE,
                          district |-> district]
    /\ UNCHANGED <<output_dir, dashboard, store, models, district_stats, loadsSinceWrite, lastGood,
                   forecasts_csv, metrics_csv, plots>>

\* generate_residual_plots does not read self.district_stats
GenerateResidualPlotsCall ==
    /\ \E district \in Regions :
        lastCall' = IF models.sized
                    THEN [op |-> "generate_residual_plots", raised |-> FALSE,
                          district |-> district,
                          result |-> GenerateResidualPlots(models.items, district)]
                    ELSE [op |-> "generate_residual_plots", raised |-> TRUE,
                          district |-> district]
    /\ UNCHANGED <<output_dir, dashboard, store, models, district_stats, loadsSinceWrite, lastGood,
                   forecasts_csv, metrics_csv, plots>>

\* ------------------------------------------------------------ generate_dashboard
\* `if not self.diagnostics.models`: None and the empty dict are falsy
ModelsTruthy(ms) == ms.sized /\ Len(ms.items) > 0

\* What generate_dashboard puts in the page: the districts, the summary
\* table, and the figures of the districts that have one (lines 61-92).
DashboardContents(ms, ds, forecast_periods) ==
    {[districts |-> Keys(ms),
      summary |-> t,
      plots_json |-> {d \in KeySet(ms) :
                         GenerateForecastPlot(ms, d, forecast_periods) # None},
      diag_plots_json |-> {d \in KeySet(ms) : GenerateResidualPlots(ms, d) # None}] :
        t \in SummaryTables(ms, ds)}

\* a file written by a run: its directory and its name
Written(dir, file) == [dir |-> dir, file |-> file]

\* lines 57-59: load_models is called when self.diagnostics.models is falsy;
\* result FALSE stands for the ValueError
DashboardLoad(s, ms, ds) ==
    IF ModelsTruthy(ms)
    THEN [models |-> ms, district_stats |-> ds, result |-> TRUE, raised |-> FALSE,
          loaded |-> FALSE]
    ELSE [loaded |-> TRUE] @@ LoadOutcome(s, ms, ds)

\* DashboardGenerator(diagnostics).generate_dashboard(forecast_periods) on the
\* object; DashboardGenerator.output_dir is DefaultDir whatever the object's
\* output_dir is (line 42)
GenerateDashboard ==
    /\ \E forecast_periods \in 1..MaxHorizon :
        LET out == DashboardLoad(store, models, district_stats)
            passes == out.result /\ LoopPasses(out.models, out.district_stats)
        IN  /\ models' = out.models
            /\ district_stats' = out.district_stats
            /\ loadsSinceWrite' = IF out.loaded
                                  THEN Min(loadsSinceWrite + 1, MaxLoadsCounted)
                                  ELSE loadsSinceWrite
            /\ lastGood' = IF out.loaded /\ out.result
                           THEN [models |-> out.models,
                                 district_stats |-> out.district_stats]
                           ELSE lastGood
            /\ IF passes
               THEN \E c \in DashboardContents(out.models.items, out.district_stats,
                                               forecast_periods) :
                        dashboard' = Some([dir |-> DefaultDir, content |-> c])
               ELSE dashboard' = dashboard
            /\ lastCall' = [op |-> "generate_dashboard",
                            loaded |-> out.loaded,
                            raised |-> ~passes,
                            error |-> IF ~out.result THEN "Could not load models"
                                      ELSE IF ~passes THEN "AttributeError"
                                      ELSE "none",
                            writes |-> IF passes
                                       THEN <<Written(DefaultDir, OutputKey("dashboard"))>>
                                       ELSE <<>>]
    /\ UNCHANGED <<store, forecasts_csv, metrics_csv, plots, output_dir>>

\* ------------------------------------------------------------ the drivers
\* the plot files of one generate_all_outputs loop in the order save_plot
\* wrote them: district by district, the forecast plot first
PlotWrites(ms, written) ==
    LET districts == Keys(ms)
        One(file) == IF file \in written THEN <<file>> ELSE <<>>
        F[i \in 0..Len(districts)] ==
            IF i = 0 THEN <<>>
            ELSE F[i - 1] \o One(PlotFile(districts[i], "forecast"))
                         \o One(PlotFile(districts[i], "diagnostics"))
    IN  F[Len(districts)]

\* a driver that goes on to the outputs whatever load_models returned
DriverOutcomes_IgnoresLoadResult(s, ms, ds, dir, forecast_periods, unwritable, withDashboard) ==
    LET out == LoadOutcome(s, ms, ds)
        usable == IF out.models.sized THEN out.models.items ELSE EmptyDict
        loop == PlotLoop(usable, forecast_periods, unwritable)
        files == PlotWrites(usable, loop.written)
    IN  {[models |-> out.models, district_stats |-> out.district_stats,
          loaded |-> out.result, loads |-> 1,
          ended |-> IF loop.raised THEN "raised" ELSE "done",
          writes |-> [i \in 1..Len(files) |-> Written(dir, files[i])] \o
                     (IF loop.raised THEN <<>>
                      ELSE <<Written(dir, OutputKey("forecasts_csv")),
                             Written(dir, OutputKey("metrics_csv"))>>),
          plots |-> loop.written,
          forecasts_csv |-> None, metrics_csv |-> None, dashboard |-> None]}

\* One run of a driver on the object it has just constructed: load_models,
\* then generate_all_outputs, then (CLI only) generate_dashboard. ended is
\* "stopped" when the driver gives up after a failed load (sys.exit(1), or
\* return), "raised" when an exception leaves it, "done" otherwise; writes
\* lists the files in the order they were written.
DriverOutcomes(s, ms, ds, dir, forecast_periods, unwritable, withDashboard) ==
    LET out == LoadOutcome(s, ms, ds)
        Ends(ended, files, written) ==
            [models |-> out.models, district_stats |-> out.district_stats,
             loaded |-> out.result, loads |-> 1, ended |-> ended,
             writes |-> [i \in 1..Len(files) |-> Written(dir, files[i])],
             plots |-> written,
             forecasts_csv |-> None, metrics_csv |-> None, dashboard |-> None]
    IN  IF ~out.result THEN {Ends("stopped", <<>>, {})}
        ELSE IF ~LoopPasses(out.models, out.district_stats)
        THEN {Ends("raised", <<>>, {})}
        ELSE LET ms1 == out.models.items
                 ds1 == out.district_stats
                 loop == PlotLoop(ms1, forecast_periods, unwritable)
                 files == PlotWrites(ms1, loop.written)
                 again == DashboardLoad(s, out.models, ds1)
             IN  IF loop.raised THEN {Ends("raised", files, loop.written)}
                 ELSE {[Ends("done", files, loop.written) EXCEPT
                          !.forecasts_csv =
                              Some(ToCsv(ForecastRows(ms1, forecast_periods),
                                         ForecastColumns)),
                          !.metrics_csv = Some(ToCsv(t, SummaryColumns)),
                          !.dashboard = IF withDashboard
                                        THEN Some([dir |-> DefaultDir, content |-> c])
                                        ELSE None,
                          !.loads = IF withDashboard /\ again.loaded THEN 2 ELSE 1,
                          !.writes = @ \o <<Written(dir, OutputKey("forecasts_csv")),
                                            Written(dir, OutputKey("metrics_csv"))>>
                                       \o (IF withDashboard
                                           THEN <<Written(DefaultDir,
                                                          OutputKey("dashboard"))>>
                                           ELSE <<>>)] :
                        t \in SummaryTables(ms1, ds1),
                        c \in DashboardContents(ms1, ds1, forecast_periods)}

\* what a driver run leaves in the object and on disk
DriverStep(op, o, dir) ==
    /\ output_dir' = dir
    /\ models' = o.models
    /\ district_stats' = o.district_stats
    /\ loadsSinceWrite' = Min(loadsSinceWrite + o.loads, MaxLoadsCounted)
    /\ lastGood' = IF o.loaded
                   THEN [models |-> o.models, district_stats |-> o.district_stats]
                   ELSE lastGood
    /\ plots' = o.plots
    /\ forecasts_csv' = o.forecasts_csv
    /\ metrics_csv' = o.metrics_csv
    /\ dashboard' = o.dashboard
    /\ lastCall' = [op |-> op, output |-> dir, loaded |-> o.loaded,
                    ended |-> o.ended, writes |-> o.writes]
    /\ UNCHANGED store

\* scripts/run_diagnostics.py main(): the object is constructed, its
\* output_dir is set to --output, then the run
CliMain ==
    /\ lastCall = NoCall
    /\ \E output \in {DefaultDir, OtherDir}, periods \in 1..MaxHorizon,
          unwritable \in {u \in SUBSET PlotFiles : Cardinality(u) <= 1} :
        \E o \in DriverOutcomes(store, models, district_stats, output, periods,
                                 unwritable, TRUE) :
            DriverStep("main", o, output)

\* forecast_diagnostics.run_diagnostics(): default directory, default
\* horizon, no dashboard
RunDiagnostics ==
    /\ lastCall = NoCall
    /\ \E unwritable \in {u \in SUBSET PlotFiles : Cardinality(u) <= 1} :
        \E o \in DriverOutcomes(store, models, district_stats, DefaultDir, MaxHorizon,
                                 unwritable, FALSE) :
            DriverStep("run_diagnostics", o, DefaultDir)

\* ------------------------------------------------------------ store contents
StatsFor(ms, stats) == [i \in 1..Len(ms) |-> [k |-> ms[i].k, v |-> stats]]

\* every store shape, with one model per district
RegistryStores ==
    {MissingStore, CorruptStore, NotDictStore, DictStore(EmptyDict)}
    \cup {StoreOf(Sized(ms), StatsFor(ms, FullStats)) : ms \in DictsOver(Regions, {BaseModel})}
    \cup {StoreOf(Unsized, ds) : ds \in {EmptyDict, <<[k |-> 1, v |-> EmptyDict]>>}}

\* the training process (or anything else) rewrites the file
WriteStore ==
    /\ \E s \in RegistryStores : store' = s
    /\ store' # store
    /\ loadsSinceWrite' = 0
    /\ UNCHANGED <<output_dir, dashboard, models, district_stats, lastGood, forecasts_csv, metrics_csv,
                   plots, lastCall>>

\* ------------------------------------------------------------ the registry
Init ==
    /\ store \in RegistryStores
    /\ InitObject

Next ==
    \/ WriteStore
    \/ LoadModels
    \/ GetDistricts

Spec == Init /\ [][Next]_vars

\* ------------------------------------------------------------ the summary table
\* models whose diagnostics fail or succeed and whose metrics are absent or
\* give different or equal RMSE
SummaryModels ==
    {[BaseModel EXCEPT !.adf = a, !.endog = e] :
        a \in {Raises, Returns(100)}, e \in {<<NaN>>, <<0>>, <<1>>}}

SummaryStores ==
    {StoreOf(Sized(ms), EmptyDict) : ms \in DictsOver(Regions, SummaryModels)}

InitSummary ==
    /\ store \in SummaryStores
    /\ InitObject

NextSummary ==
    \/ LoadModels
    \/ GenerateSummaryTable
    \/ ExportMetricsCsv

SpecSummary == InitSummary /\ [][NextSummary]_vars

\* ------------------------------------------------------------ the forecast export
\* models whose forecast raises, or returns fewer steps than asked for, or
\* all of them
ExportModels ==
    {[BaseModel EXCEPT !.forecast = f] :
        f \in {Raises} \cup {Returns(k) : k \in 0..MaxHorizon}}

ExportStores ==
    {StoreOf(Sized(ms), EmptyDict) : ms \in DictsOver(Regions, ExportModels)}

InitExport ==
    /\ store \in ExportStores
    /\ InitObject

NextExport ==
    \/ LoadModels
    \/ ExportForecastsCsv

SpecExport == InitExport /\ [][NextExport]_vars

\* ------------------------------------------------------------ the output run
\* a model with every plot and a one-step forecast, one without forecast
\* plot, one without residual plot and without metrics
OutputModels ==
    {[BaseModel EXCEPT !.forecast = Returns(1)],
     [BaseModel EXCEPT !.forecast = Raises, !.endog = <<1>>],
     [BaseModel EXCEPT !.pacf = Raises, !.endog = <<NaN>>]}

OutputStores ==
    {StoreOf(Sized(ms), EmptyDict) : ms \in DictsOver(Regions, OutputModels)}

InitOutputs ==
    /\ store \in OutputStores
    /\ InitObject

NextOutputs ==
    \/ LoadModels
    \/ GenerateAllOutputs

SpecOutputs == InitOutputs /\ [][NextOutputs]_vars

\* ------------------------------------------------------------ compute_metrics alone
\* one district, every pair of fitted and observed series up to MaxSeriesLen
MetricsModels ==
    {[BaseModel EXCEPT !.fittedvalues = f, !.endog = a] :
        f \in SeqsUpTo(Vals, MaxSeriesLen), a \in SeqsUpTo(Vals, MaxSeriesLen)}

MetricsStores ==
    {StoreOf(Sized(<<[k |-> 1, v |-> m]>>), EmptyDict) : m \in MetricsModels}

InitMetrics ==
    /\ store \in MetricsStores
    /\ InitObject

NextMetrics ==
    \/ LoadModels
    \/ ComputeMetricsCall

SpecMetrics == InitMetrics /\ [][NextMetrics]_vars

\* ------------------------------------------------------------ compute_diagnostics alone
\* one district; residual counts around the Shapiro-Wilk range, p-values
\* around the 0.05 threshold and at 0
ResidCounts == {0, ShapiroMin, ShapiroMin + 1, ShapiroMax, ShapiroMax + 1}

DiagnosticsModels ==
    {[BaseModel EXCEPT !.resid_n = n, !.adf = a, !.lb = l, !.shapiro = p] :
        n \in ResidCounts,
        a \in {Raises, Returns(P005 - 1), Returns(P005), Returns(P005 + 1)},
        l \in {P005 - 1, P005, P005 + 1},
        p \in {0, 1, P005}}

DiagnosticsStores ==
    {StoreOf(Sized(<<[k |-> 1, v |-> m]>>), ds) :
        m \in DiagnosticsModels, ds \in {EmptyDict, <<[k |-> 1, v |-> FullStats]>>}}

InitDiagnostics ==
    /\ store \in DiagnosticsStores
    /\ InitObject

NextDiagnostics ==
    \/ LoadModels
    \/ ComputeDiagnosticsCall

SpecDiagnostics == InitDiagnostics /\ [][NextDiagnostics]_vars

\* ------------------------------------------------------------ the exported values
\* one district; forecasts of every length up to MaxHorizon whose steps take
\* every ordered interval over PointVals (-0.5, 0.5 and 0.75), or an
\* interval whose bounds are swapped
PointVals == {0 - 2, 2, 3}

PointIntervals ==
    {[lower |-> l, mean |-> m, upper |-> u] :
        l \in PointVals, m \in PointVals, u \in PointVals}

PointsReturned ==
    {p \in PointIntervals : p.lower <= p.mean /\ p.mean <= p.upper}
    \cup {[lower |-> 3, mean |-> 2, upper |-> 0 - 2]}

PointModels ==
    {[BaseModel EXCEPT !.forecast = f, !.points = ps] :
        f \in {Raises} \cup {Returns(k) : k \in 0..MaxHorizon},
        ps \in [1..MaxHorizon -> PointsReturned]}

PointStores ==
    {StoreOf(Sized(<<[k |-> 1, v |-> m]>>), EmptyDict) : m \in PointModels}

InitPoints ==
    /\ store \in PointStores
    /\ InitObject

NextPoints ==
    \/ LoadModels
    \/ ExportForecastsCsv

SpecPoints == InitPoints /\ [][NextPoints]_vars

\* ------------------------------------------------------------ every operation
\* One district at most, so that the other districts are unknown to the
\* repository; a model whose every accessor works, one whose accessors
\* raise and one that fits its observations exactly; the stats of the district absent, partial or complete, or None in
\* place of the whole mapping.
FailingModel ==
    [BaseModel EXCEPT !.adf = Raises, !.pacf = Raises, !.forecast = Raises,
                      !.endog = <<NaN>>]

\* a model whose fitted values equal the non-zero observations
PerfectFitModel == [BaseModel EXCEPT !.fittedvalues = <<1>>, !.endog = <<1>>]

PartialStats == <<[k |-> "order", v |-> <<2, 1, 0>>]>>

CallStores ==
    {StoreOf(Sized(ms), ds) :
        ms \in {EmptyDict} \cup
               {<<[k |-> 1, v |-> m]>> : m \in {BaseModel, FailingModel, PerfectFitModel}},
        ds \in {EmptyDict, NoneStats} \cup
               {<<[k |-> 1, v |-> st]>> : st \in {PartialStats, FullStats}}}

InitCalls ==
    /\ store \in CallStores
    /\ InitObject

NextCalls ==
    \/ LoadModels
    \/ ComputeDiagnosticsCall
    \/ ComputeMetricsCall
    \/ GenerateForecastPlotCall
    \/ GenerateResidualPlotsCall
    \/ GenerateSummaryTable
    \/ ExportForecastsCsv
    \/ ExportMetricsCsv
    \/ GenerateAllOutputs

SpecCalls == InitCalls /\ [][NextCalls]_vars

\* ------------------------------------------------------------ the dashboard
\* the object after any loads of any store, and generate_dashboard on it
InitDashboard ==
    /\ store \in RegistryStores
    /\ InitObject

NextDashboard ==
    \/ WriteStore
    \/ LoadModels
    \/ GenerateDashboard

SpecDashboard == InitDashboard /\ [][NextDashboard]_vars

\* ------------------------------------------------------------ the driver runs
\* every store shape, and repositories whose districts have every plot, no
\* forecast plot, or no residual plot and no metrics
DriverStores ==
    {MissingStore, CorruptStore, NotDictStore, DictStore(EmptyDict),
     StoreOf(Unsized, EmptyDict)}
    \cup {StoreOf(Sized(<<[k |-> 1, v |-> BaseModel]>>), NoneStats)}
    \cup OutputStores

InitDrivers ==
    /\ store \in DriverStores
    /\ InitObject

NextDrivers ==
    \/ CliMain
    \/ RunDiagnostics
    \/ GenerateDashboard

SpecDrivers == InitDrivers /\ [][NextDrivers]_vars

\* ============================================================ claims
\* Everything a caller can compute from the registry: the district list and,
\* per district, the diagnostics and the metrics, and the summary tables.
RegistryResults(ms, ds) ==
    IF ~ms.sized THEN Raises
    ELSE Returns([districts |-> Keys(ms.items),
                  diagnostics |-> [d \in Regions |-> ComputeDiagnostics(ms.items, ds, d)],
                  metrics |-> [d \in Regions |-> ComputeMetrics(ms.items, ds, d)],
                  tables |-> SummaryTables(ms.items, ds)])

\* C6: load_models never raises; it returns False when the store file is
\* missing, cannot be unpickled, or unpickles to something that is not a
\* dict; and when it returns True, self.models and self.district_stats hold
\* what the store has under "models" and "district_stats".
C6_LoadReturnsFalseOnBadStore ==
    (lastCall.op = "load_models" /\ loadsSinceWrite >= 1) =>
        /\ ~lastCall.raised
        /\ store.kind \in {"missing", "corrupt", "notdict"} => lastCall.result = FALSE
        /\ lastCall.result = TRUE =>
            /\ store.kind = "dict"
            /\ models.sized
            /\ models = DictGet(store.data, "models", Sized(EmptyDict))
            /\ district_stats = DictGet(store.data, "district_stats", EmptyDict)

\* a load of a file that cannot be unpickled, on an object that holds a
\* registry from an earlier load
C6_Witness ==
    /\ lastCall.op = "load_models"
    /\ loadsSinceWrite >= 1
    /\ store.kind = "corrupt"
    /\ lastCall.result = FALSE
    /\ Len(models.items) = NumRegions

\* C7: get_districts always returns the keys read by the most recent
\* load_models call that returned True (the empty list before any), and a
\* load_models call that returns False leaves self.models and
\* self.district_stats as they were.
C7_FailedLoadKeepsRegistry ==
    [][/\ GetDistrictsOutcome(models') = Returns(Keys(lastGood'.models.items))
       /\ (lastCall'.op = "load_models" /\ lastCall'.result = FALSE) =>
              (models' = models /\ district_stats' = district_stats)]_vars

\* C8: a load_models call on a store that was not written since the last
\* load_models call leaves the district list and every per-district result
\* (diagnostics, metrics, summary table) as the last call left them.
C8_LoadIsIdempotent ==
    [][(lastCall'.op = "load_models" /\ loadsSinceWrite >= 1 /\ store' = store) =>
          /\ GetDistrictsOutcome(models') = GetDistrictsOutcome(models)
          /\ RegistryResults(models', district_stats') =
             RegistryResults(models, district_stats)]_vars

\* the second load of a store that holds every district
C8_Witness ==
    /\ lastCall.op = "load_models"
    /\ lastCall.result = TRUE
    /\ loadsSinceWrite = 2
    /\ Len(models.items) = NumRegions

\* the place of a district in get_districts()
Position(ms, district) == CHOOSE i \in 1..Len(ms) : ms[i].k = district

\* C1: generate_all_outputs is never aborted by a failure for one district:
\* whatever plot cannot be produced or saved, the call returns and both
\* CSV files are written.
C1_PlotFailureNeverAborts ==
    (lastCall.op = "generate_all_outputs" /\ models.sized) =>
        /\ ~lastCall.raised
        /\ {OutputKey("forecasts_csv"), OutputKey("metrics_csv")} \subseteq lastCall.outputs
        /\ forecasts_csv # None
        /\ metrics_csv # None

\* C2: after export_forecasts_csv(horizon) the export holds horizon rows for
\* each district whose export did not fail, and none for the others.
C2_RowCountIsSucceededTimesHorizon ==
    (lastCall.op = "export_forecasts_csv" /\ ~lastCall.raised) =>
        /\ Len(forecasts_csv.some.rows) =
               lastCall.forecast_periods *
               Cardinality(KeySet(models.items) \ lastCall.failed)
        /\ \A i \in 1..Len(forecasts_csv.some.rows) :
               forecasts_csv.some.rows[i].district \notin lastCall.failed

\* C3: generate_summary_table returns exactly one row for each district for
\* which compute_diagnostics and compute_metrics both return a result, and
\* no other row, wherever the districts without a result stand in the list.
C3_OneRowPerSucceededRegion ==
    (lastCall.op = "generate_summary_table" /\ ~lastCall.raised) =>
        LET t == lastCall.result
            both == {d \in KeySet(models.items) :
                        /\ ComputeDiagnostics(models.items, district_stats, d) # None
                        /\ ComputeMetrics(models.items, district_stats, d) # None}
        IN  /\ {t[i].District : i \in 1..Len(t)} = both
            /\ Len(t) = Cardinality(both)

\* every district is loaded, the first of them has no diagnostics, and the
\* table holds the rows of all the others
C3_Witness ==
    /\ lastCall.op = "generate_summary_table"
    /\ ~lastCall.raised
    /\ Len(models.items) = NumRegions
    /\ ComputeDiagnostics(models.items, district_stats, models.items[1].k) = None
    /\ Len(lastCall.result) = NumRegions - 1

RmseSorted(t) == \A i, j \in 1..Len(t) : i < j => t[i].RMSE <= t[j].RMSE

\* C4: the rows generate_summary_table returns, and the rows written to
\* metrics_summary.csv, are in non-decreasing order of RMSE.
C4_SummarySortedByRmse ==
    /\ (lastCall.op = "generate_summary_table" /\ ~lastCall.raised) =>
           RmseSorted(lastCall.result)
    /\ metrics_csv # None => RmseSorted(metrics_csv.some.rows)

\* a table whose first row belongs to a district that get_districts() lists
\* after the district of the second row
C4_Witness ==
    /\ lastCall.op = "generate_summary_table"
    /\ ~lastCall.raised
    /\ Len(lastCall.result) >= 2
    /\ lastCall.result[1].RMSE < lastCall.result[2].RMSE
    /\ Position(models.items, lastCall.result[1].District) >
       Position(models.items, lastCall.result[2].District)

\* C5: rows of equal RMSE stand in the order of get_districts().
C5_TiesKeepTraversalOrder ==
    (lastCall.op = "generate_summary_table" /\ ~lastCall.raised) =>
        LET t == lastCall.result
        IN  \A i, j \in 1..Len(t) :
                (i < j /\ t[i].RMSE = t[j].RMSE) =>
                    Position(models.items, t[i].District) <
                    Position(models.items, t[j].District)

\* the pairs compute_metrics is specified to work on: the last n values of
\* each series, n the shorter length, without the pairs with a missing side
AlignedPairs(model) ==
    LET f == model.fittedvalues
        a == model.endog
        n == Min(Len(f), Len(a))
    IN  {[fitted |-> f[Len(f) - n + k], actual |-> a[Len(a) - n + k], at |-> k] :
            k \in {j \in 1..n : ~IsNaN(f[Len(f) - n + j]) /\ ~IsNaN(a[Len(a) - n + j])}}

\* |error / actual| of one pair, in units of 1 / Fact(MaxVal)
PairTerm(q) == Abs(q.actual - q.fitted) * (Fact(MaxVal) \div Abs(q.actual))

RECURSIVE SumPairTerms(_)
SumPairTerms(S) ==
    IF S = {} THEN 0
    ELSE LET x == CHOOSE y \in S : TRUE IN PairTerm(x) + SumPairTerms(S \ {x})

\* C9: in every result of compute_metrics, MAPE is absent exactly when every
\* aligned actual value is zero, and otherwise it is the mean over the
\* positions with a non-zero actual value only.
C9_MapeAbsentIffAllZero ==
    (lastCall.op = "compute_metrics" /\ ~lastCall.raised /\ lastCall.result # None) =>
        LET pairs == AlignedPairs(Lookup(models.items, lastCall.district))
            nz == {q \in pairs : q.actual # 0}
            mape == lastCall.result.mape
        IN  /\ mape = None <=> nz = {}
            /\ mape # None =>
                   /\ mape.some.den = Fact(MaxVal) * Cardinality(nz)
                   /\ mape.some.num = 100 * SumPairTerms(nz)

\* a result over a zero and a non-zero actual value, each with an error
C9_Witness ==
    /\ lastCall.op = "compute_metrics"
    /\ ~lastCall.raised
    /\ lastCall.result # None
    /\ lastCall.result.mape # None
    /\ LET pairs == AlignedPairs(Lookup(models.items, lastCall.district))
       IN  /\ \E q \in pairs : q.actual = 0 /\ q.fitted # 0
           /\ \E q \in pairs : q.actual # 0 /\ q.fitted # q.actual

\* C10: in every result of compute_diagnostics the normality p-value is
\* absent when the cleaned residual count is <= 3 or > 5000 and present
\* otherwise, whatever p-value the test returns.
C10_ShapiroPresentInRange ==
    (lastCall.op = "compute_diagnostics" /\ ~lastCall.raised /\ lastCall.result # None) =>
        LET n == Lookup(models.items, lastCall.district).resid_n
        IN  lastCall.result.shapiro_pvalue = None <=> (n <= ShapiroMin \/ n > ShapiroMax)

\* C11: in every result of compute_diagnostics, is_stationary is true exactly
\* when the reported adf_pvalue is below 0.05 and no_autocorrelation is true
\* exactly when the reported ljung_box_pvalue is above 0.05, each flag from
\* its own test's p-value whatever the other test gives; a p-value of
\* exactly 0.05 gives FALSE for both flags.
C11_FlagsAreStrictComparisons ==
    (lastCall.op = "compute_diagnostics" /\ ~lastCall.raised /\ lastCall.result # None) =>
        LET r == lastCall.result
            model == Lookup(models.items, lastCall.district)
        IN  /\ r.adf_pvalue = model.adf.ret
            /\ r.ljung_box_pvalue = model.lb
            /\ r.is_stationary <=> r.adf_pvalue < P005
            /\ r.no_autocorrelation <=> r.ljung_box_pvalue > P005
            /\ r.adf_pvalue = P005 => ~r.is_stationary
            /\ r.ljung_box_pvalue = P005 => ~r.no_autocorrelation

\* a result whose ADF p-value is exactly 0.05 while the Ljung-Box p-value is
\* above it: the two flags differ, each following its own test
C11_Witness ==
    /\ lastCall.op = "compute_diagnostics"
    /\ ~lastCall.raised
    /\ lastCall.result # None
    /\ lastCall.result.adf_pvalue = P005
    /\ lastCall.result.ljung_box_pvalue > P005
    /\ ~lastCall.result.is_stationary
    /\ lastCall.result.no_autocorrelation

\* the squared and the absolute error of one aligned pair
SquaredError(q) == (q.actual - q.fitted) * (q.actual - q.fitted)
AbsoluteError(q) == Abs(q.actual - q.fitted)

RECURSIVE SumSquaredErrors(_)
SumSquaredErrors(S) ==
    IF S = {} THEN 0
    ELSE LET x == CHOOSE y \in S : TRUE IN SquaredError(x) + SumSquaredErrors(S \ {x})

RECURSIVE SumAbsoluteErrors(_)
SumAbsoluteErrors(S) ==
    IF S = {} THEN 0
    ELSE LET x == CHOOSE y \in S : TRUE IN AbsoluteError(x) + SumAbsoluteErrors(S \ {x})

\* C12: for a district with a fitted model, compute_metrics returns None or a
\* result whose RMSE and MAE are >= 0, RMSE being the square root of the mean
\* squared error and MAE the mean absolute error over the aligned pairs
\* without a missing side; and it returns a result whenever there is at
\* least one such pair.
C12_RmseMaeNonNegative ==
    (lastCall.op = "compute_metrics" /\ ~lastCall.raised
        /\ HasKey(models.items, lastCall.district)) =>
        LET pairs == AlignedPairs(Lookup(models.items, lastCall.district))
            r == lastCall.result
        IN  /\ pairs # {} => r # None
            /\ r # None =>
                   \* rmse is sqrt(num / den), mae is num / den
                   /\ r.rmse.den = Cardinality(pairs)
                   /\ r.rmse.num = SumSquaredErrors(pairs)
                   /\ r.mae.den = Cardinality(pairs)
                   /\ r.mae.num = SumAbsoluteErrors(pairs)
                   /\ r.rmse.den > 0 /\ r.rmse.num >= 0
                   /\ r.mae.den > 0 /\ r.mae.num >= 0

\* a result over two pairs whose errors are of opposite sign
C12_Witness ==
    /\ lastCall.op = "compute_metrics"
    /\ ~lastCall.raised
    /\ lastCall.result # None
    /\ LET model == Lookup(models.items, lastCall.district)
           pairs == AlignedPairs(model)
       IN  /\ \E q \in pairs : q.actual > q.fitted
           /\ \E q \in pairs : q.actual < q.fitted

\* C13: whenever the model's forecast of a step has lower <= point forecast
\* <= upper, the row exported for that step holds each of the three values
\* rounded to the nearest whole unit and still has lower_ci_95 <= forecast
\* <= upper_ci_95.
C13_RoundingKeepsIntervalOrder ==
    (lastCall.op = "export_forecasts_csv" /\ ~lastCall.raised) =>
        \A i \in 1..Len(forecasts_csv.some.rows) :
            LET row == forecasts_csv.some.rows[i]
                p == Lookup(models.items, row.district).points[row.period]
            IN  /\ 2 * Abs(PointDen * row.forecast - p.mean) <= PointDen
                /\ 2 * Abs(PointDen * row.lower_ci_95 - p.lower) <= PointDen
                /\ 2 * Abs(PointDen * row.upper_ci_95 - p.upper) <= PointDen
                /\ (p.lower <= p.mean /\ p.mean <= p.upper) =>
                       (row.lower_ci_95 <= row.forecast /\ row.forecast <= row.upper_ci_95)

\* an exported step whose three values differ before rounding, the lower
\* two of them rounding to the same whole unit
C13_Witness ==
    /\ lastCall.op = "export_forecasts_csv"
    /\ ~lastCall.raised
    /\ \E i \in 1..Len(forecasts_csv.some.rows) :
           LET row == forecasts_csv.some.rows[i]
               p == Lookup(models.items, row.district).points[row.period]
           IN  /\ p.lower < p.mean /\ p.mean < p.upper
               /\ row.lower_ci_95 = row.forecast
               /\ row.forecast < row.upper_ci_95

\* C14: the forecasts.csv written by export_forecasts_csv has the columns
\* district, date, period, forecast, lower_ci_95, upper_ci_95 whatever the
\* repository holds, an empty repository and one whose every forecast fails
\* included.
C14_ForecastColumnsAlwaysPresent ==
    forecasts_csv # None => forecasts_csv.some.columns = ForecastColumns

\* no district of the repository has both diagnostics and metrics
NoSummaryRow(ms, ds) ==
    \A d \in KeySet(ms) :
        ComputeDiagnostics(ms, ds, d) = None \/ ComputeMetrics(ms, ds, d) = None

C16_PerDistrictCallsNeverRaise ==
    (/\ lastCall.op \in {"compute_diagnostics", "compute_metrics",
                         "generate_forecast_plot", "generate_residual_plots"}
     /\ models = lastGood.models
     /\ district_stats = lastGood.district_stats) =>
        ~lastCall.raised

\* C17: no operation other than load_models changes the repository: every
\* step of compute_diagnostics, compute_metrics, generate_forecast_plot,
\* generate_residual_plots, generate_summary_table, export_forecasts_csv,
\* export_metrics_csv and generate_all_outputs leaves self.models and
\* self.district_stats, and each fitted model in them, as they were.
C17_OnlyLoadChangesRepository ==
    [][lastCall'.op # "load_models" =>
          (models' = models /\ district_stats' = district_stats)]_vars

\* a complete output run over a loaded district, after which the repository
\* is still what load_models read
C17_Witness ==
    /\ lastCall.op = "generate_all_outputs"
    /\ ~lastCall.raised
    /\ Len(models.items) > 0
    /\ plots # {}
    /\ forecasts_csv # None /\ Len(forecasts_csv.some.rows) > 0
    /\ metrics_csv # None /\ Len(metrics_csv.some.rows) > 0
    /\ models = DictGet(store.data, "models", Sized(EmptyDict))
    /\ district_stats = DictGet(store.data, "district_stats", EmptyDict)

C19_BothSeriesCutToCommonLength ==
    (lastCall.op = "compute_metrics" /\ ~lastCall.raised
        /\ HasKey(models.items, lastCall.district)) =>
        LET model == Lookup(models.items, lastCall.district)
            n == Min(Len(model.fittedvalues), Len(model.endog))
            fitted_vals == PyTail(model.fittedvalues, n)
            actual_vals == PyTail(model.endog, n)
        IN  /\ Len(fitted_vals) = n
            /\ Len(actual_vals) = n
            /\ \A k \in 1..n :
                   /\ fitted_vals[k] = model.fittedvalues[Len(model.fittedvalues) - n + k]
                   /\ actual_vals[k] = model.endog[Len(model.endog) - n + k]
            /\ AlignedPairs(model) = {} => lastCall.result = None

\* C20: every district that appears in forecasts.csv has the rows of the
\* steps 1, 2, ..., horizon, each once and in that order, with dates that
\* grow by one month from row to row; no district appears with the steps
\* 1..k only, k < horizon.
C20_EveryDistrictHasAllSteps ==
    (lastCall.op = "export_forecasts_csv" /\ ~lastCall.raised) =>
        LET rows == forecasts_csv.some.rows
        IN  \A d \in {rows[i].district : i \in 1..Len(rows)} :
                LET own == SelectSeq(rows, LAMBDA row : row.district = d)
                IN  /\ Len(own) = lastCall.forecast_periods
                    /\ \A j \in 1..Len(own) : own[j].period = j
                    /\ \A j \in 1..(Len(own) - 1) : own[j + 1].date = own[j].date + 1

\* C22: a summary row has a MAPE value whenever compute_metrics returned a
\* MAPE for its district: the MAPE column is empty only for a district whose
\* metrics have no MAPE, and a MAPE of exactly 0 is shown as 0.0.
C22_MapeShownWheneverComputed ==
    (lastCall.op = "generate_summary_table" /\ ~lastCall.raised) =>
        \A i \in 1..Len(lastCall.result) :
            LET row == lastCall.result[i]
                mape == ComputeMetrics(models.items, district_stats, row.District).mape
            IN  /\ row.MAPE = None <=> mape = None
                /\ (mape # None /\ mape.some.num = 0) => row.MAPE = Some(0)

\* C23: generate_dashboard calls load_models only when no load has succeeded
\* on its object: called after a load_models that returned True, a load of
\* zero districts included, it does not read the store again, does not raise
\* "Could not load models", and writes a dashboard for the loaded districts.
C23_DashboardLoadsOnlyBeforeFirstSuccess ==
    [][(/\ lastCall.op = "load_models"
        /\ lastCall.result = TRUE
        /\ lastCall'.op = "generate_dashboard") =>
           /\ ~lastCall'.loaded
           /\ lastCall'.error # "Could not load models"
           /\ dashboard' # None
           /\ dashboard'.some.content.districts = Keys(models.items)]_vars

\* C21: every file of one CLI run is written under the output directory
\* given to that run: with --output set, the plots, forecasts.csv,
\* metrics_summary.csv and dashboard.html are all under that directory, so
\* that the links of the dashboard to the two CSV files reach the files of
\* the same run.
C21_OneOutputDirectoryPerRun ==
    lastCall.op = "main" =>
        /\ output_dir = lastCall.output
        /\ \A i \in 1..Len(lastCall.writes) : lastCall.writes[i].dir = lastCall.output
        /\ lastCall.ended = "done" =>
               /\ dashboard # None
               /\ dashboard.some.dir = output_dir

\* the place of a file in the order of a run: the plots, forecasts.csv,
\* metrics_summary.csv, dashboard.html
ArtifactRank(file) ==
    IF file = OutputKey("forecasts_csv") THEN 2
    ELSE IF file = OutputKey("metrics_csv") THEN 3
    ELSE IF file = OutputKey("dashboard") THEN 4
    ELSE 1

\* C24: in the CLI main, in run_diagnostics and in generate_dashboard no
\* plot, CSV or dashboard file is written before load_models has returned
\* True: after a failed load the driver stops (generate_dashboard raises)
\* with no file written, and after a successful one the files are written
\* in the order plots, forecasts.csv, metrics_summary.csv, dashboard.html.
C24_NothingWrittenBeforeLoad ==
    /\ lastCall.op \in {"main", "run_diagnostics"} =>
           LET w == lastCall.writes
               n == Len(w)
               k == IF lastCall.op = "main" THEN 3 ELSE 2
           IN  /\ ~lastCall.loaded =>
                      /\ lastCall.ended = "stopped"
                      /\ w = <<>>
                      /\ plots = {} /\ forecasts_csv = None /\ metrics_csv = None
                      /\ dashboard = None
               /\ \A i, j \in 1..n :
                      i < j => /\ ArtifactRank(w[i].file) <= ArtifactRank(w[j].file)
                               /\ w[i].file # w[j].file
               /\ lastCall.ended = "done" =>
                      /\ n >= k
                      /\ w[n - k + 1].file = OutputKey("forecasts_csv")
                      /\ w[n - k + 2].file = OutputKey("metrics_csv")
                      /\ lastCall.op = "main" => w[n].file = OutputKey("dashboard")
                      /\ lastCall.op = "run_diagnostics" => dashboard = None
    /\ lastCall.op = "generate_dashboard" =>
           /\ lastCall.error = "Could not load models" =>
                  (lastCall.raised /\ lastCall.writes = <<>>)
           /\ lastCall.writes # <<>> =>
                  /\ models = lastGood.models
                  /\ district_stats = lastGood.district_stats
                  /\ lastCall.loaded \/ ModelsTruthy(models)

\* a finished CLI run over a repository of every district, the plots of
\* both kinds written before the two CSV files and the dashboard
C24_Witness ==
    /\ lastCall.op = "main"
    /\ lastCall.loaded
    /\ lastCall.ended = "done"
    /\ Len(models.items) = NumRegions
    /\ Len(lastCall.writes) >= 5
    /\ ArtifactRank(lastCall.writes[1].file) = 1
    /\ ArtifactRank(lastCall.writes[2].file) = 1
    /\ dashboard # None

====
